---- MODULE Spec2Model ----
(***************************************************************************)
(* State-machine model of the eBay seller monitor: the monitoring cycle    *)
(* (monitorSellers), its scheduler (startMonitoring,                       *)
(* triggerMonitoringRestart), the seller store (loadSellers, saveSellers,  *)
(* addSeller, removeSeller, updateSeller) and the webhook sender           *)
(* (sendWithRateLimit).                                                    *)
(*                                                                         *)
(* JavaScript runs each async function to its next await without           *)
(* interruption, so one action is the code between two awaits of one       *)
(* invocation; different invocations interleave at their awaits.           *)
(***************************************************************************)
EXTENDS Integers, Sequences, FiniteSets, TLC

(* ------------------------------ bounds --------------------------------- *)

\* item ids are 1..MaxId
MaxId == 2
\* a crawl returns at most MaxItems items
MaxItems == 2
\* monitorSellers invocations in one behaviour, the one at process start included
MaxCycles == 2
\* admin add/remove requests beside the cycles in one behaviour
MaxAdmin == 1
\* admin add/remove requests that race each other
MaxRequests == 2
\* saveSellers calls that fail in one behaviour
MaxFail == 1
\* sendWithRateLimit calls in one behaviour
MaxCalls == 2
\* length of a known-id list in sellers.json at process start
MaxKnown == 2
\* monitorSellers invocations that are in their send loops at the same time
MaxSenders == 3
\* new items of the seller such an invocation is sending for
MaxBatch == 2
\* the clock of the concurrent senders stops here, in ms
MaxTime == 3000
\* its step, in ms
TickMs == 500
\* result pages of a seller's sold-items search
MaxPages == 2
\* item cards on one result page
MaxCards == 2

Ids == 1 .. MaxId
Ssns == {"a", "b"}
Kinds == {"listings", "sold"}
Cycles == 1 .. MaxCycles
Requests == 1 .. MaxRequests

\* the two seller-store modules of the repository
Variants == {"utils", "part_003"}

(* --------------------------- small helpers ----------------------------- *)

Range(s) == {s[i] : i \in 1 .. Len(s)}

\* all sequences over S of length at most n
SeqUpTo(S, n) == UNION {[1 .. k -> S] : k \in 0 .. n}

\* Array.prototype.filter, element by element in array order
RECURSIVE Filter(_, _)
Filter(s, keep) ==
  IF s = <<>> THEN <<>>
  ELSE IF Head(s) \in keep THEN <<Head(s)>> \o Filter(Tail(s), keep)
       ELSE Filter(Tail(s), keep)

\* {...s, ...u}: the fields of u override those of s
Spread(s, u) ==
  [f \in DOMAIN s \cup DOMAIN u |-> IF f \in DOMAIN u THEN u[f] ELSE s[f]]

(* ------------------------------ records -------------------------------- *)

\* the kind-specific field names of a seller record
KnownField(type) == IF type = "listings" THEN "knownListings" ELSE "knownSoldItems"
CheckedField(type) == IF type = "listings" THEN "lastCheckedListings" ELSE "lastCheckedSold"

\* the record addSeller creates; the known-list of the other kind is undefined
\* and so is not a field of the stored record; addedAt is the creation stamp
\* (0 for a record that was in the file at process start)
newSeller(ssn, type, stamp) ==
  IF type = "listings"
  THEN [ssn |-> ssn, type |-> type, lastCheckedListings |-> 0,
        lastCheckedSold |-> 0, knownListings |-> <<>>, addedAt |-> stamp]
  ELSE [ssn |-> ssn, type |-> type, lastCheckedListings |-> 0,
        lastCheckedSold |-> 0, knownSoldItems |-> <<>>, addedAt |-> stamp]

\* seller.knownListings || []   /   seller.knownSoldItems || []
Known(s, type) ==
  IF KnownField(type) \in DOMAIN s THEN s[KnownField(type)] ELSE <<>>

(* ------------------------------ the file ------------------------------- *)

\* sellers.json: absent, a valid collection, empty (zero bytes) or corrupt
\* (a partial write that does not parse)
Absent == [st |-> "absent", sellers |-> <<>>]
Empty == [st |-> "empty", sellers |-> <<>>]
Corrupt == [st |-> "corrupt", sellers |-> <<>>]
Valid(sellers) == [st |-> "valid", sellers |-> sellers]

VARIABLES
  variant,   \* the seller-store module in use
  env,       \* the kinds whose webhook url is set in the environment
  file,      \* sellers.json
  fails,     \* saveSellers calls that have failed so far
  timers,    \* pending setTimeout callbacks of triggerMonitoringRestart
  req,       \* admin requests: [st, op, ssn, type, sellers, res]
  pc,        \* per monitorSellers invocation: its position
  origin,    \* per invocation: "periodic" or "trigger"
  snap,      \* per invocation: the collection getAllSellers returned
  todo,      \* per invocation: the sellers still to iterate, current first
  newItems,  \* per invocation: newListings / newSoldItems of the current seller
  j,         \* per invocation: index of the next new item to send
  upd,       \* per invocation: the collection updateSeller is about to save
  failed,    \* per invocation: ids of the current seller whose send returned false
  log        \* per invocation: what it did, one entry per seller it reached

\* the webhook sender (the module of sendWithRateLimit)
VARIABLES
  now,             \* Date.now(), in ms
  rateLimitState,  \* webhook url -> resetAt, 0 when the Map has no entry
  sPc,             \* position of the sendWithRateLimit call: idle, top, send
  sUrl,            \* its webhookUrl
  attempt,         \* its loop variable
  sends,           \* sendFunction() calls it has made
  seen,            \* the outcomes those calls had
  resp,            \* the outcome of the latest of them
  sRes,            \* what the last finished call returned
  calls            \* calls begun so far

\* the send loops of monitorSellers invocations that overlap in time
VARIABLES
  sender,   \* per invocation: [pc, url, attempt, wake, left] of its send loop
  lastEnd   \* webhook url -> when the latest call for it returned, -1 if none

\* one getSellerSoldItems call (utils/scraper.js)
VARIABLES
  site,       \* the seller's result pages: per page the soldDate text of its cards
  kPc,        \* attempt, delay, page, returned, thrown
  kAttempt,   \* attempt of retryOperation
  delays,     \* retry delays slept so far
  pageNum,    \* page the pagination loop is on
  soldItems,  \* the result being collected
  fetched,    \* the pages loaded in this attempt, in order
  nav         \* how the latest pass of the loop ended: none, stopped, absent, failed, loaded

\* the manual check of one seller (POST /api/admin/check/:ssn)
VARIABLES
  checked     \* the latest request: what it met and the response it got

monitorVars == <<variant, env, file, fails, timers, req, pc, origin, snap, todo,
                 newItems, j, upd, failed, log>>
sendVars == <<now, rateLimitState, sPc, sUrl, attempt, sends, seen, resp, sRes, calls>>
callVars == <<sPc, sUrl, attempt, sends, seen, resp, sRes, calls>>
senderVars == <<sender, lastEnd>>
crawlVars == <<site, kPc, kAttempt, delays, pageNum, soldItems, fetched, nav>>
checkVars == <<checked>>
vars == <<monitorVars, sendVars, senderVars, crawlVars, checkVars>>

(* ------------------------------ the store ------------------------------ *)

\* loadSellers: [ok, sellers]; ok = FALSE is a thrown error
loadSellers ==
  IF variant = "utils"
  THEN [ok |-> TRUE, sellers |-> IF file.st = "valid" THEN file.sellers ELSE <<>>]
  ELSE IF file.st = "corrupt"
       THEN [ok |-> FALSE, sellers |-> <<>>]
       ELSE [ok |-> TRUE, sellers |-> IF file.st = "valid" THEN file.sellers ELSE <<>>]

\* getAllSellers: the part_003 module turns a thrown load into []
getAllSellers == loadSellers.sellers

\* what a failed fs.writeFile(SELLERS_FILE, ...) can leave behind: the file as
\* it was (the open failed), or truncated, or partly written
FailedWrite == {file, Empty, Corrupt}

\* saveSellers(sellers): the possible [saved, file] results.
\* utils: one fs.writeFile on the live file.
\* part_003: write and verify a temporary file, rename it over the live file;
\* when that fails, write the backup text (when there is any) back over the
\* live file, which succeeds or fails as a write does.
saveSellers(sellers) ==
  {[saved |-> TRUE, file |-> Valid(sellers)]} \cup
  IF fails >= MaxFail THEN {}
  ELSE IF variant = "utils" \/ file.st \in {"valid", "corrupt"}
       THEN {[saved |-> FALSE, file |-> f] : f \in FailedWrite}
       ELSE {[saved |-> FALSE, file |-> file]}

(* ------------------------------ the diff ------------------------------- *)

\* the filter with its test the wrong way round
newListingsKeepsKnown(known, items) == Filter(items, Range(known))

\* listings.filter((listing) => !knownListingIds.has(listing.itemId)), with
\* knownListingIds = new Set(known); an item is modelled by its itemId
newListings(known, items) == Filter(items, Ids \ Range(known))

\* [...(seller.knownListings || []), ...newListings.map((l) => l.itemId)]
updatedKnownListings(known, new) == known \o new

\* the updates object monitorSellers hands to updateSeller, stamped with the
\* time of the call (the number of the invocation stands for its time)
Updates(type, known, stamp) ==
  IF type = "listings"
  THEN [knownListings |-> known, lastCheckedListings |-> stamp]
  ELSE [knownSoldItems |-> known, lastCheckedSold |-> stamp]

\* sellers.findIndex(...) of updateSeller, 0 when there is none
findIndex(sellers, ssn, type) ==
  LET hits == {i \in 1 .. Len(sellers) : sellers[i].ssn = ssn /\ sellers[i].type = type}
  IN IF hits = {} THEN 0 ELSE CHOOSE i \in hits : \A k \in hits : i <= k

\* sellers.filter((s) => s.type === type)
OfType(sellers, type) ==
  LET Test(s) == s.type = type IN SelectSeq(sellers, Test)

\* both loops run whatever the environment holds
PlanEveryKind(sellers) == OfType(sellers, "listings") \o OfType(sellers, "sold")

\* the sellers one cycle iterates, in order: the listing sellers when
\* WEBHOOK_URL_LISTINGS is set, then the sold sellers when WEBHOOK_URL_SOLD
\* is set
Plan(sellers) ==
  (IF "listings" \in env THEN OfType(sellers, "listings") ELSE <<>>) \o
  (IF "sold" \in env THEN OfType(sellers, "sold") ELSE <<>>)

(* ----------------------------- monitorSellers -------------------------- *)

\* a flag that a failed crawl or a failed write of an invocation clears
monitoringStopsOnFailure ==
  /\ fails = 0
  /\ \A c \in Cycles : \A k \in 1 .. Len(log[c]) : log[c][k].crawl # "fail"

\* let monitoringActive = true, which no statement assigns again
monitoringActive == TRUE

\* the log entry opened when the loop reaches a seller
Entry(s, crawl, items, new) ==
  [ssn |-> s.ssn, type |-> s.type, addedAt |-> s.addedAt, crawl |-> crawl,
   items |-> items, new |-> new, sent |-> <<>>, upd |-> "none", paused |-> FALSE]

Last(c) == Len(log[c])

\* leave the current seller: the next one, or the end of the cycle
NextSeller(c) ==
  /\ todo' = [todo EXCEPT ![c] = Tail(@)]
  /\ pc' = [pc EXCEPT ![c] = IF Len(todo[c]) = 1 THEN "done" ELSE "crawl"]
  /\ newItems' = [newItems EXCEPT ![c] = <<>>]
  /\ j' = [j EXCEPT ![c] = 1]
  /\ failed' = [failed EXCEPT ![c] = {}]

\* the cycle's entry: the guard, getAllSellers, the two early returns and the
\* split by type
MonitorLoad(c) ==
  /\ pc[c] = "load"
  /\ monitoringActive
  /\ LET sellers == getAllSellers
         plan == IF Len(sellers) = 0 \/ env = {} THEN <<>> ELSE Plan(sellers)
     IN /\ snap' = [snap EXCEPT ![c] = sellers]
        /\ todo' = [todo EXCEPT ![c] = plan]
        /\ pc' = [pc EXCEPT ![c] = IF plan = <<>> THEN "done" ELSE "crawl"]
  /\ UNCHANGED <<variant, env, file, fails, timers, req, origin, newItems, j, upd, log, failed, sendVars, senderVars, crawlVars, checkVars>>

\* the crawl of the current seller returned items: the diff follows at once
CrawlOk(c, items) ==
  /\ pc[c] = "crawl"
  /\ LET s == Head(todo[c])
         new == newListings(Known(s, s.type), items)
     IN /\ newItems' = [newItems EXCEPT ![c] = new]
        /\ j' = [j EXCEPT ![c] = 1]
        /\ log' = [log EXCEPT ![c] = Append(@, Entry(s, "ok", items, new))]
        /\ pc' = [pc EXCEPT ![c] = IF Len(new) > 0 THEN "notify" ELSE "pause"]
  /\ UNCHANGED <<variant, env, file, fails, timers, req, origin, snap, todo, upd, failed, sendVars, senderVars, crawlVars, checkVars>>

\* the crawl error leaves the for loop and ends the cycle in the outer catch
CrawlFailedAborts(c) ==
  /\ pc[c] = "crawl"
  /\ log' = [log EXCEPT ![c] = Append(@, Entry(Head(todo[c]), "fail", <<>>, <<>>))]
  /\ todo' = [todo EXCEPT ![c] = <<>>]
  /\ pc' = [pc EXCEPT ![c] = "done"]
  /\ UNCHANGED <<variant, env, file, fails, timers, req, origin, snap, upd, newItems, j, failed, sendVars, senderVars, crawlVars, checkVars>>

\* a catch that stamps the seller's last-checked time in the store
CrawlFailedStamps(c) ==
  /\ pc[c] = "crawl"
  /\ log' = [log EXCEPT ![c] = Append(@, Entry(Head(todo[c]), "fail", <<>>, <<>>))]
  /\ NextSeller(c)
  /\ file' = [file EXCEPT !.sellers =
                [i \in DOMAIN @ |->
                   IF @[i].ssn = Head(todo[c]).ssn /\ @[i].type = Head(todo[c]).type
                   THEN Spread(@[i], IF @[i].type = "listings"
                                     THEN [lastCheckedListings |-> c]
                                     ELSE [lastCheckedSold |-> c])
                   ELSE @[i]]]
  /\ UNCHANGED <<variant, env, fails, timers, req, origin, snap, upd, sendVars, senderVars, crawlVars, checkVars>>

\* the crawl threw after its retries: the catch of the seller's try block
\* logs it and the for loop goes on with the next seller
CrawlFailed(c) ==
  /\ pc[c] = "crawl"
  /\ log' = [log EXCEPT ![c] = Append(@, Entry(Head(todo[c]), "fail", <<>>, <<>>))]
  /\ NextSeller(c)
  /\ UNCHANGED <<variant, env, file, fails, timers, req, origin, snap, upd, sendVars, senderVars, crawlVars, checkVars>>

\* a send loop left after its first send
NotifyFirstOnly(c, ok) ==
  /\ pc[c] = "notify"
  /\ LET id == newItems[c][j[c]]
     IN /\ log' = [log EXCEPT ![c][Last(c)].sent = Append(@, id)]
        /\ failed' = [failed EXCEPT ![c] = IF ok THEN @ ELSE @ \cup {id}]
  /\ j' = [j EXCEPT ![c] = @ + 1]
  /\ pc' = [pc EXCEPT ![c] = "update"]
  /\ UNCHANGED <<variant, env, file, fails, timers, req, origin, snap, todo, newItems, upd, sendVars, senderVars, crawlVars, checkVars>>

\* one webhook send for the next new item (its boolean result is not read),
\* then the 2.5 s sleep
Notify(c, ok) ==
  /\ pc[c] = "notify"
  /\ LET id == newItems[c][j[c]]
     IN /\ log' = [log EXCEPT ![c][Last(c)].sent = Append(@, id)]
        /\ failed' = [failed EXCEPT ![c] = IF ok THEN @ ELSE @ \cup {id}]
  /\ j' = [j EXCEPT ![c] = @ + 1]
  /\ pc' = [pc EXCEPT ![c] = IF j[c] = Len(newItems[c]) THEN "update" ELSE "notify"]
  /\ UNCHANGED <<variant, env, file, fails, timers, req, origin, snap, todo, newItems, upd, sendVars, senderVars, crawlVars, checkVars>>

\* updateSeller up to its saveSellers call: load, find the record, merge
UpdateLoad(c) ==
  /\ pc[c] = "update"
  /\ LET s == Head(todo[c])
         known == updatedKnownListings(Known(s, s.type), newItems[c])
         l == loadSellers
         idx == findIndex(l.sellers, s.ssn, s.type)
     IN IF ~l.ok \/ idx = 0
        THEN /\ log' = [log EXCEPT ![c][Last(c)].upd =
                          IF ~l.ok THEN "loadfail" ELSE "notfound"]
             /\ pc' = [pc EXCEPT ![c] = "pause"]
             /\ upd' = upd
        ELSE /\ upd' = [upd EXCEPT ![c] =
                          [l.sellers EXCEPT ![idx] = Spread(@, Updates(s.type, known, c))]]
             /\ pc' = [pc EXCEPT ![c] = "save"]
             /\ log' = log
  /\ UNCHANGED <<variant, env, file, fails, timers, req, origin, snap, todo, newItems, j, failed, sendVars, senderVars, crawlVars, checkVars>>

\* a saveSellers that throws when the write fails: the error leaves
\* updateSeller and the seller's try block, past the pause
UpdateSaveThrows(c) ==
  /\ pc[c] = "save"
  /\ \E o \in saveSellers(upd[c]) :
       /\ file' = o.file
       /\ fails' = IF o.saved THEN fails ELSE fails + 1
       /\ log' = [log EXCEPT ![c][Last(c)].upd = IF o.saved THEN "saved" ELSE "savefail"]
       /\ IF o.saved
          THEN /\ pc' = [pc EXCEPT ![c] = "pause"]
               /\ UNCHANGED <<todo, newItems, j, failed>>
          ELSE NextSeller(c)
  /\ upd' = [upd EXCEPT ![c] = <<>>]
  /\ UNCHANGED <<variant, env, timers, req, origin, snap, sendVars, senderVars, crawlVars, checkVars>>

\* the saveSellers call of updateSeller; monitorSellers does not read the result
UpdateSave(c) ==
  /\ pc[c] = "save"
  /\ \E o \in saveSellers(upd[c]) :
       /\ file' = o.file
       /\ fails' = IF o.saved THEN fails ELSE fails + 1
       /\ log' = [log EXCEPT ![c][Last(c)].upd = IF o.saved THEN "saved" ELSE "savefail"]
  /\ pc' = [pc EXCEPT ![c] = "pause"]
  /\ upd' = [upd EXCEPT ![c] = <<>>]
  /\ UNCHANGED <<variant, env, timers, req, origin, snap, todo, newItems, j, failed, sendVars, senderVars, crawlVars, checkVars>>

\* the 5 s sleep that ends the try block of a seller
Pause(c) ==
  /\ pc[c] = "pause"
  /\ log' = [log EXCEPT ![c][Last(c)].paused = TRUE]
  /\ NextSeller(c)
  /\ UNCHANGED <<variant, env, file, fails, timers, req, origin, snap, upd, sendVars, senderVars, crawlVars, checkVars>>

(* ------------------------------ scheduler ------------------------------ *)

\* the invocation slot a new monitorSellers call takes
FreeSlot == CHOOSE c \in Cycles : pc[c] = "idle" /\ \A k \in Cycles : pc[k] = "idle" => c <= k

\* a call of monitorSellers(): nothing looks at the invocations in progress
StartCycle(from) ==
  /\ \E c \in Cycles : pc[c] = "idle"
  /\ pc' = [pc EXCEPT ![FreeSlot] = "load"]
  /\ origin' = [origin EXCEPT ![FreeSlot] = from]

\* the setInterval callback of startMonitoring
IntervalTick ==
  /\ StartCycle("periodic")
  /\ UNCHANGED <<variant, env, file, fails, timers, req, snap, todo, newItems, j, upd, log, failed, sendVars, senderVars, crawlVars, checkVars>>

\* a trigger that is dropped while an earlier one is still pending
triggerOncePerWindow(pending) == IF pending > 0 THEN pending ELSE 1

\* triggerMonitoringRestart(): one more setTimeout callback pending; nothing
\* touches the setInterval handle of startMonitoring
triggerMonitoringRestart(pending) == pending + 1

\* the setTimeout callback of triggerMonitoringRestart, 2 s after the trigger
TimerFire ==
  /\ timers > 0
  /\ timers' = timers - 1
  /\ StartCycle("trigger")
  /\ UNCHANGED <<variant, env, file, fails, req, snap, todo, newItems, j, upd, log, failed, sendVars, senderVars, crawlVars, checkVars>>

(* ------------------------------ admin ---------------------------------- *)

NoRequest == [st |-> "free", op |-> "none", ssn |-> "a", type |-> "listings",
              sellers |-> <<>>, res |-> FALSE]

FirstFree(r) == req[r].st = "free" /\ \A k \in Requests : req[k].st = "free" => r <= k

\* an add that looks for no earlier record
existingNever(sellers, ssn, type) == FALSE

\* sellers.find((s) => s.ssn === trimmedSsn && s.type === type), as a truth value
existing(sellers, ssn, type) ==
  \E i \in 1 .. Len(sellers) : sellers[i].ssn = ssn /\ sellers[i].type = type

\* addSeller up to its saveSellers call; request r's number stands for the
\* time in addedAt
AddLoad(r, ssn, type) ==
  /\ FirstFree(r)
  /\ LET l == loadSellers
     IN req' = [req EXCEPT ![r] =
          IF ~l.ok \/ existing(l.sellers, ssn, type)
          THEN [NoRequest EXCEPT !.st = "done", !.op = "add", !.ssn = ssn, !.type = type]
          ELSE [st |-> "loaded", op |-> "add", ssn |-> ssn, type |-> type,
                sellers |-> Append(l.sellers, newSeller(ssn, type, r)), res |-> FALSE]]
  /\ UNCHANGED <<variant, env, file, fails, timers, pc, origin, snap, todo, newItems, j, upd, log, failed, sendVars, senderVars, crawlVars, checkVars>>

\* removeSeller up to its saveSellers call
RemoveLoad(r, ssn, type) ==
  /\ FirstFree(r)
  /\ LET l == loadSellers
         Keep(s) == ~(s.ssn = ssn /\ s.type = type)
         filtered == SelectSeq(l.sellers, Keep)
     IN req' = [req EXCEPT ![r] =
          IF ~l.ok \/ Len(filtered) = Len(l.sellers)
          THEN [NoRequest EXCEPT !.st = "done", !.op = "remove", !.ssn = ssn, !.type = type]
          ELSE [st |-> "loaded", op |-> "remove", ssn |-> ssn, type |-> type,
                sellers |-> filtered, res |-> FALSE]]
  /\ UNCHANGED <<variant, env, file, fails, timers, pc, origin, snap, todo, newItems, j, upd, log, failed, sendVars, senderVars, crawlVars, checkVars>>

\* the saveSellers call of addSeller / removeSeller and the route's reaction:
\* triggerMonitoringRestart() when the result reports success
AdminSave(r) ==
  /\ req[r].st = "loaded"
  /\ \E o \in saveSellers(req[r].sellers) :
       /\ file' = o.file
       /\ fails' = IF o.saved THEN fails ELSE fails + 1
       /\ req' = [req EXCEPT ![r].st = "done", ![r].res = o.saved, ![r].sellers = <<>>]
       /\ timers' = IF o.saved THEN triggerMonitoringRestart(timers) ELSE timers
  /\ UNCHANGED <<variant, env, pc, origin, snap, todo, newItems, j, upd, log, failed, sendVars, senderVars, crawlVars, checkVars>>

(* ------------------------------ check-now ----------------------------- *)

\* no request made yet
NoCheck ==
  [status |-> 0, found |-> FALSE, type |-> "none", listingsOk |-> FALSE, soldOk |-> FALSE,
   listings |-> [total |-> 0, new |-> 0], soldItems |-> [total |-> 0, new |-> 0]]

\* sellers.find((s) => s.ssn === ssn || s.username === ssn): the index of the
\* first record of that seller, of whichever kind, 0 when there is none
find(sellers, ssn) ==
  IF \E i \in 1 .. Len(sellers) : sellers[i].ssn = ssn
  THEN CHOOSE i \in 1 .. Len(sellers) :
         sellers[i].ssn = ssn /\ \A k \in 1 .. i - 1 : sellers[k].ssn # ssn
  ELSE 0

\* items.filter((x) => !seller[field].includes(x.itemId)): the callback runs
\* once per item and reads .includes of seller[field], a TypeError when the
\* record has no such field
filterThrows(seller, field, items) == items # <<>> /\ field \notin DOMAIN seller

\* the handler of POST /api/admin/check/:ssn, from the request to its
\* response; the two crawls return the given items or throw
AdminCheck(ssn, listingsOk, listings, soldOk, sold) ==
  /\ LET sellers == getAllSellers
         i == find(sellers, ssn)
         met == [NoCheck EXCEPT !.found = i # 0, !.listingsOk = listingsOk, !.soldOk = soldOk,
                                !.type = IF i = 0 THEN "none" ELSE sellers[i].type]
         New(field, items) == Len(newListings(sellers[i][field], items))
     IN checked' =
          IF i = 0 THEN [met EXCEPT !.status = 404]
          ELSE IF ~listingsOk \/ filterThrows(sellers[i], "knownListings", listings)
                  \/ ~soldOk \/ filterThrows(sellers[i], "knownSoldItems", sold)
               THEN [met EXCEPT !.status = 500]
               ELSE [met EXCEPT !.status = 200,
                       !.listings = [total |-> Len(listings),
                                     new |-> IF listings = <<>> THEN 0
                                             ELSE New("knownListings", listings)],
                       !.soldItems = [total |-> Len(sold),
                                      new |-> IF sold = <<>> THEN 0
                                              ELSE New("knownSoldItems", sold)]]
  /\ UNCHANGED <<monitorVars, sendVars, senderVars, crawlVars>>

(* --------------------------- sendWithRateLimit ------------------------- *)

Urls == {"hookListings", "hookSold"}

\* the default of the maxRetries parameter
maxRetries == 5

Min(a, b) == IF a < b THEN a ELSE b

RECURSIVE Pow2(_)
Pow2(n) == IF n = 0 THEN 1 ELSE 2 * Pow2(n - 1)

\* What sendFunction() can do: resolve, or reject with a response of some
\* status, or reject with no response at all (status 0).  A 429 carries a
\* retry-after header (a string; hdr is its numeric value, 0 when absent) and
\* a retry_after number in its body (data, 0 when absent).
Outcomes ==
  {[status |-> 200, hdr |-> 0, data |-> 0]} \cup
  {[status |-> 429, hdr |-> h, data |-> d] : h \in {0, 2, 2000}, d \in {0, 3000}} \cup
  {[status |-> s, hdr |-> 0, data |-> 0] : s \in {500, 404, 0}}

\* the waitTime of the 429 branch; only the body's retry_after is a number, so
\* only it can be taken as milliseconds
RateLimitWait(r, a) ==
  IF r.hdr # 0 THEN r.hdr * 1000
  ELSE IF r.data # 0 THEN (IF r.data > 1000 THEN r.data ELSE r.data * 1000)
  ELSE Min(30000, Pow2(a) * 1000)

\* a backoff that does not grow
FlatWait(a) == 1000

\* the waitTime of the 5xx branch
ServerErrorWait(a) == Min(10000, Pow2(a) * 1000)

\* a retry that does not count
SameAttempt(a) == a

\* attempt++ of the for loop, reached by continue
NextAttempt(a) == a + 1

\* a success that leaves the entry in place
Kept(state, url) == state

\* rateLimitState.delete(webhookUrl)
Cleared(state, url) == [state EXCEPT ![url] = 0]

\* one resetAt for every webhook
RecordedForAll(state, url, resetAt) == [u \in DOMAIN state |-> resetAt]

\* rateLimitState.set(webhookUrl, { resetAt })
Recorded(state, url, resetAt) == [state EXCEPT ![url] = resetAt]

\* no outcome yet
NoResponse == [status |-> 0, hdr |-> 0, data |-> 0]

\* a call that reports success whatever happened
ReturnTrue(value) ==
  /\ sPc' = "idle"
  /\ sRes' = TRUE

\* return of sendWithRateLimit
Return(value) ==
  /\ sPc' = "idle"
  /\ sRes' = value

\* a caller calls sendWithRateLimit(url, sendFunction)
Call(url) ==
  /\ sPc = "idle"
  /\ calls < MaxCalls
  /\ calls' = calls + 1
  /\ sPc' = "top"
  /\ sUrl' = url
  /\ attempt' = 0
  /\ sends' = 0
  /\ seen' = {}
  /\ resp' = NoResponse
  /\ UNCHANGED <<now, rateLimitState, sRes, monitorVars, senderVars, crawlVars, checkVars>>

\* the loop test, then the wait for a recorded resetAt that lies ahead
LoopTop ==
  /\ sPc = "top"
  /\ IF attempt < maxRetries
     THEN /\ sPc' = "send"
          /\ now' = IF rateLimitState[sUrl] > now THEN rateLimitState[sUrl] ELSE now
          /\ sRes' = sRes
     ELSE /\ Return(FALSE)
          /\ now' = now
  /\ UNCHANGED <<rateLimitState, sUrl, attempt, sends, seen, resp, calls, monitorVars, senderVars, crawlVars, checkVars>>

\* await sendFunction() and what follows its outcome, sleeps included
Send(r) ==
  /\ sPc = "send"
  /\ sends' = sends + 1
  /\ seen' = seen \cup {r.status}
  /\ resp' = r
  /\ IF r.status = 200
     THEN /\ rateLimitState' = Cleared(rateLimitState, sUrl)
          /\ Return(TRUE)
          /\ UNCHANGED <<now, attempt>>
     ELSE IF r.status = 429
     THEN /\ rateLimitState' = Recorded(rateLimitState, sUrl, now + RateLimitWait(r, attempt))
          /\ IF attempt < maxRetries - 1
             THEN /\ now' = now + RateLimitWait(r, attempt)
                  /\ attempt' = NextAttempt(attempt)
                  /\ sPc' = "top"
                  /\ sRes' = sRes
             ELSE /\ Return(FALSE)
                  /\ UNCHANGED <<now, attempt>>
     ELSE IF attempt < maxRetries - 1 /\ r.status >= 500
     THEN /\ now' = now + ServerErrorWait(attempt)
          /\ attempt' = NextAttempt(attempt)
          /\ sPc' = "top"
          /\ UNCHANGED <<rateLimitState, sRes>>
     ELSE /\ Return(FALSE)
          /\ UNCHANGED <<now, attempt, rateLimitState>>
  /\ UNCHANGED <<sUrl, calls, monitorVars, senderVars, crawlVars, checkVars>>

\* no sendWithRateLimit call yet
SendIdle ==
  /\ now = 0
  /\ rateLimitState = [u \in Urls |-> 0]
  /\ sPc = "idle"
  /\ sUrl = "hookListings"
  /\ attempt = 0
  /\ sends = 0
  /\ seen = {}
  /\ resp = NoResponse
  /\ sRes = FALSE
  /\ calls = 0

(* ------------------- send loops that overlap in time ------------------- *)

\* monitorSellers invocations run side by side (nothing serializes them), and
\* each calls sendNewListingWebhook / sendSoldItemWebhook for the new items of
\* its seller with a 2.5 s sleep after every call.  All of them share
\* rateLimitState and the clock.  A sender is at one of: off (not in a send
\* loop yet), wait (the sleep for a recorded resetAt), flight (sendFunction()
\* awaits its response), backoff (the sleep before a retry), spacing (the
\* 2.5 s sleep of the caller), out (its loop is over).
Senders == 1 .. MaxSenders

\* the delay between webhooks of one invocation, in ms
Spacing == 2500

Off == [pc |-> "off", url |-> "hookListings", attempt |-> 0, wake |-> 0, left |-> 0]

\* the responses the concurrent senders receive
SenderOutcomes == {r \in Outcomes : r.hdr = (IF r.status = 429 THEN 2 ELSE 0) /\ r.data = 0 /\ r.status \in {200, 429, 500}}

Sleeping(s) == s.pc \in {"wait", "backoff", "spacing"}

\* sendWithRateLimit returns and the caller starts its 2.5 s sleep
Returned(s) == [s EXCEPT !.pc = "spacing", !.wake = now + Spacing, !.left = @ - 1]

\* the head of the retry loop at attempt a: sleep for a resetAt that lies
\* ahead, else call sendFunction() at once
LoopEntry(s, a) ==
  IF a >= maxRetries THEN Returned(s)
  ELSE IF rateLimitState[s.url] > now
  THEN [s EXCEPT !.pc = "wait", !.attempt = a, !.wake = rateLimitState[s.url]]
  ELSE [s EXCEPT !.pc = "flight", !.attempt = a, !.wake = now]

\* an invocation finds n new items for a seller whose webhook is url and
\* makes its first call
Enter(p, url, n) ==
  /\ sender[p].pc = "off"
  /\ \A q \in Senders : q < p => sender[q].pc # "off"
  /\ sender' = [sender EXCEPT ![p] = LoopEntry([Off EXCEPT !.url = url, !.left = n], 0)]
  /\ UNCHANGED <<now, rateLimitState, lastEnd, callVars, monitorVars, crawlVars, checkVars>>

\* a sleep is over: sendFunction() is called after the rate-limit sleep, the
\* loop goes round after a backoff, the next item is sent after the spacing
WakeUp(p) ==
  LET s == sender[p]
  IN /\ Sleeping(s)
     /\ s.wake <= now
     /\ sender' = [sender EXCEPT ![p] =
          IF s.pc = "wait" THEN [s EXCEPT !.pc = "flight", !.wake = now]
          ELSE IF s.pc = "backoff" THEN LoopEntry(s, NextAttempt(s.attempt))
          ELSE IF s.left = 0 THEN [s EXCEPT !.pc = "out"]
          ELSE LoopEntry(s, 0)]
     /\ UNCHANGED <<now, rateLimitState, lastEnd, callVars, monitorVars, crawlVars, checkVars>>

\* the response to a send in flight arrives, some time after it was sent
Response(p, r) ==
  LET s == sender[p]
      retry(wait) == [s EXCEPT !.pc = "backoff", !.wake = now + wait]
  IN /\ s.pc = "flight"
     /\ now > s.wake
     /\ rateLimitState' =
          IF r.status = 200 THEN Cleared(rateLimitState, s.url)
          ELSE IF r.status = 429
          THEN Recorded(rateLimitState, s.url, now + RateLimitWait(r, s.attempt))
          ELSE rateLimitState
     /\ LET after ==
              IF r.status = 200 THEN Returned(s)
              ELSE IF r.status = 429
              THEN (IF s.attempt < maxRetries - 1
                    THEN retry(RateLimitWait(r, s.attempt)) ELSE Returned(s))
              ELSE IF s.attempt < maxRetries - 1 /\ r.status >= 500
              THEN retry(ServerErrorWait(s.attempt))
              ELSE Returned(s)
        IN /\ sender' = [sender EXCEPT ![p] = after]
           /\ lastEnd' = IF after.pc = "spacing"
                         THEN [lastEnd EXCEPT ![s.url] = now] ELSE lastEnd
     /\ UNCHANGED <<now, callVars, monitorVars, crawlVars, checkVars>>

\* time passes while no timer is due
Tick ==
  /\ now < MaxTime
  /\ \A p \in Senders : Sleeping(sender[p]) => sender[p].wake > now
  /\ now' = now + TickMs
  /\ UNCHANGED <<rateLimitState, sender, lastEnd, callVars, monitorVars, crawlVars, checkVars>>

\* no invocation is in a send loop
NoSender ==
  /\ sender = [p \in Senders |-> Off]
  /\ lastEnd = [u \in Urls |-> -1]

(* ------------------------- getSellerSoldItems -------------------------- *)

\* The soldDate text of a card, by what the code does with it: whether it
\* holds "Sold" (the card is skipped when it does not), whether the
\* /Sold\s+([A-Za-z]+\s+\d+,\s+\d{4})/ pattern matches it, whether new Date()
\* of the match is a valid date, and how many days ago that date is.
NoSoldText == [sold |-> FALSE, match |-> FALSE, valid |-> FALSE, days |-> 0]
NoMatch == [sold |-> TRUE, match |-> FALSE, valid |-> FALSE, days |-> 0]
InvalidDate == [sold |-> TRUE, match |-> TRUE, valid |-> FALSE, days |-> 0]
SoldDaysAgo(d) == [sold |-> TRUE, match |-> TRUE, valid |-> TRUE, days |-> d]

SoldDateTexts == {NoSoldText, NoMatch, InvalidDate, SoldDaysAgo(2), SoldDaysAgo(3)}

\* a seller's result pages
Sites == UNION {[1 .. n -> SeqUpTo(SoldDateTexts, MaxCards)] : n \in 1 .. MaxPages}
OnePage == << <<>> >>

\* the default of retryOperation's maxRetries parameter
retryMaxRetries == 3

\* pageItems of page k: the cards with a sold date, in page order
RECURSIVE Collect(_, _, _)
Collect(cards, k, i) ==
  IF i > Len(cards) THEN <<>>
  ELSE (IF cards[i].sold THEN << [itemId |-> <<k, i>>, soldDate |-> cards[i]] >> ELSE <<>>)
       \o Collect(cards, k, i + 1)
pageItems(k) == Collect(site[k], k, 1)

\* diffDays <= 2, where diffDays is NaN for an invalid date
diffDaysAtMostTwo(d) == d.valid /\ d.days <= 2

\* soldWithinTwoDays of an item
soldWithinTwoDays(d) == IF d.match THEN diffDaysAtMostTwo(d) ELSE TRUE

\* what the pass over page k pushes to soldItems
RECURSIVE Within(_)
Within(items) ==
  IF items = <<>> THEN <<>>
  ELSE (IF soldWithinTwoDays(Head(items).soldDate) THEN <<Head(items)>> ELSE <<>>)
       \o Within(Tail(items))

\* lastItemInRange after the pass over page k
lastItemInRange(k) ==
  LET items == pageItems(k)
  IN items # <<>> /\ soldWithinTwoDays(items[Len(items)].soldDate)

\* a retry loop that never gives up
NeverLast(a) == FALSE

\* the test that ends retryOperation with the error
LastAttempt(a) == a = retryMaxRetries

\* fn() rejects: the browser does not launch or the first page does not load
AttemptFails ==
  /\ kPc = "attempt"
  /\ kPc' = IF LastAttempt(kAttempt) THEN "thrown" ELSE "delay"
  /\ soldItems' = <<>>
  /\ UNCHANGED <<site, kAttempt, delays, pageNum, fetched, nav, monitorVars, sendVars, senderVars, checkVars>>

\* the delay before the next attempt
RetryDelay ==
  /\ kPc = "delay"
  /\ delays' = delays + 1
  /\ kAttempt' = kAttempt + 1
  /\ kPc' = "attempt"
  /\ UNCHANGED <<site, pageNum, soldItems, fetched, nav, monitorVars, sendVars, senderVars, checkVars>>

\* page.goto(url) and page.content(): the first page is loaded
FirstPage ==
  /\ kPc = "attempt"
  /\ kPc' = "page"
  /\ pageNum' = 1
  /\ soldItems' = <<>>
  /\ fetched' = <<1>>
  /\ nav' = "none"
  /\ UNCHANGED <<site, kAttempt, delays, monitorVars, sendVars, senderVars, checkVars>>

\* the pass over the current page, ending as how says; the attempt returns
\* soldItems unless the next page was loaded
PagePass(how) ==
  /\ kPc = "page"
  /\ soldItems' = soldItems \o Within(pageItems(pageNum))
  /\ nav' = how
  /\ IF how = "loaded"
     THEN /\ pageNum' = pageNum + 1
          /\ fetched' = Append(fetched, pageNum + 1)
          /\ kPc' = "page"
     ELSE /\ kPc' = "returned"
          /\ UNCHANGED <<pageNum, fetched>>
  /\ UNCHANGED <<site, kAttempt, delays, monitorVars, sendVars, senderVars, checkVars>>

\* the last item is not in range: shouldContinuePagination = false
PageStops ==
  /\ kPc = "page" /\ ~lastItemInRange(pageNum)
  /\ PagePass("stopped")

\* the next button is not visible: hasMorePages = false
NoNextPage ==
  /\ kPc = "page" /\ lastItemInRange(pageNum)
  /\ pageNum = Len(site)
  /\ PagePass("absent")

\* the click on the next button rejects, and the attempt rejects with it
ClickFailedThrows ==
  /\ kPc = "page" /\ lastItemInRange(pageNum)
  /\ pageNum < Len(site)
  /\ nav' = "failed"
  /\ kPc' = IF LastAttempt(kAttempt) THEN "thrown" ELSE "delay"
  /\ soldItems' = <<>>
  /\ UNCHANGED <<site, kAttempt, delays, pageNum, fetched, monitorVars, sendVars, senderVars, checkVars>>

\* the click on the next button rejects: the catch sets hasMorePages = false
ClickFailed ==
  /\ kPc = "page" /\ lastItemInRange(pageNum)
  /\ pageNum < Len(site)
  /\ PagePass("failed")

\* the next page is read again from the page already loaded
ClickLoadedSamePage ==
  /\ kPc = "page" /\ lastItemInRange(pageNum)
  /\ pageNum < Len(site)
  /\ soldItems' = soldItems \o Within(pageItems(pageNum))
  /\ fetched' = Append(fetched, pageNum)
  /\ nav' = "loaded"
  /\ UNCHANGED <<site, kPc, kAttempt, delays, pageNum, monitorVars, sendVars, senderVars, checkVars>>

\* the click loads the next page: pageNum++
ClickLoaded ==
  /\ kPc = "page" /\ lastItemInRange(pageNum)
  /\ pageNum < Len(site)
  /\ PagePass("loaded")

(* --------------------------- specifications --------------------------- *)

\* sellers.json as an earlier run left it
aL == newSeller("a", "listings", 0)
bL == newSeller("b", "listings", 0)
aS == newSeller("a", "sold", 0)

\* a record whose known-id list earlier cycles have filled
Tracked(ssn, type, known) ==
  Spread(newSeller(ssn, type, 0),
         IF type = "listings" THEN [knownListings |-> known]
         ELSE [knownSoldItems |-> known])

InitialCollections ==
  {<<>>, <<aL, bL, aS>>} \cup
  {<<Tracked("a", type, known)>> : type \in Kinds, known \in SeqUpTo(Ids, MaxKnown)}

\* the results a crawl can return
CrawlResults == SeqUpTo(Ids, MaxItems)
ShortCrawlResults == SeqUpTo(Ids, 1)

\* process start: startMonitoring() has made the first monitorSellers() call
Start(sellers) ==
  /\ variant \in Variants
  /\ file = Valid(sellers)
  /\ fails = 0
  /\ timers = 0
  /\ req = [r \in Requests |-> NoRequest]
  /\ pc = [c \in Cycles |-> IF c = 1 THEN "load" ELSE "idle"]
  /\ origin = [c \in Cycles |-> "periodic"]
  /\ snap = [c \in Cycles |-> <<>>]
  /\ todo = [c \in Cycles |-> <<>>]
  /\ newItems = [c \in Cycles |-> <<>>]
  /\ j = [c \in Cycles |-> 1]
  /\ upd = [c \in Cycles |-> <<>>]
  /\ failed = [c \in Cycles |-> {}]
  /\ log = [c \in Cycles |-> <<>>]
  /\ SendIdle
  /\ NoSender
  /\ kPc = "attempt" /\ kAttempt = 1 /\ delays = 0 /\ pageNum = 0
  /\ soldItems = <<>> /\ fetched = <<>> /\ nav = "none"
  /\ checked = NoCheck

\* The whole process: the scheduler, every monitorSellers invocation it
\* starts and the admin requests, interleaved at their awaits.
Init ==
  /\ env = Kinds
  /\ site = OnePage
  /\ Start(<<aL>>)

Next ==
  \/ IntervalTick
  \/ TimerFire
  \/ \E c \in Cycles : MonitorLoad(c)
  \/ \E c \in Cycles, items \in ShortCrawlResults : CrawlOk(c, items)
  \/ \E c \in Cycles : CrawlFailed(c)
  \/ \E c \in Cycles, ok \in BOOLEAN : Notify(c, ok)
  \/ \E c \in Cycles : UpdateLoad(c)
  \/ \E c \in Cycles : UpdateSave(c)
  \/ \E c \in Cycles : Pause(c)
  \/ \E r \in 1 .. MaxAdmin, ssn \in Ssns, type \in Kinds : AddLoad(r, ssn, type)
  \/ \E r \in 1 .. MaxAdmin, ssn \in Ssns, type \in Kinds : RemoveLoad(r, ssn, type)
  \/ \E r \in 1 .. MaxAdmin : AdminSave(r)

Spec == Init /\ [][Next]_vars

\* Admin requests racing each other, the timers they set and the cycles
\* those start; the requests are for listing sellers and every crawl finds
\* the one item 1.
InitAdmin ==
  /\ env = Kinds
  /\ site = OnePage
  /\ Start(<<aL>>)

NextAdmin ==
  \/ IntervalTick
  \/ TimerFire
  \/ \E c \in Cycles : MonitorLoad(c)
  \/ \E c \in Cycles : CrawlOk(c, <<1>>)
  \/ \E c \in Cycles : Notify(c, TRUE)
  \/ \E c \in Cycles : UpdateLoad(c)
  \/ \E c \in Cycles : UpdateSave(c)
  \/ \E c \in Cycles : Pause(c)
  \/ \E r \in Requests, ssn \in Ssns : AddLoad(r, ssn, "listings")
  \/ \E r \in Requests, ssn \in Ssns : RemoveLoad(r, ssn, "listings")
  \/ \E r \in Requests : AdminSave(r)

SpecAdmin == InitAdmin /\ [][NextAdmin]_vars

\* One monitorSellers invocation on its own, over every webhook configuration
\* and over collections earlier runs can have left.
InitCycle ==
  /\ env \in SUBSET Kinds
  /\ site = OnePage
  /\ \E sellers \in InitialCollections : Start(sellers)

NextCycle ==
  \/ MonitorLoad(1)
  \/ \E items \in CrawlResults : CrawlOk(1, items)
  \/ CrawlFailed(1)
  \/ \E ok \in BOOLEAN : Notify(1, ok)
  \/ UpdateLoad(1)
  \/ UpdateSave(1)
  \/ Pause(1)

SpecCycle == InitCycle /\ [][NextCycle]_vars

\* Two monitorSellers invocations one after the other: the second starts when
\* the first has ended, nothing else writes the store, and each crawl of the
\* second ends as the crawl of the same seller ended in the first.
InitTwice ==
  /\ env \in SUBSET Kinds
  /\ site = OnePage
  /\ \E sellers \in InitialCollections : Start(sellers)

NextTwice ==
  \/ MonitorLoad(1)
  \/ \E items \in CrawlResults : CrawlOk(1, items)
  \/ CrawlFailed(1)
  \/ \E ok \in BOOLEAN : Notify(1, ok)
  \/ UpdateLoad(1)
  \/ UpdateSave(1)
  \/ Pause(1)
  \/ pc[1] = "done" /\ IntervalTick
  \/ MonitorLoad(2)
  \/ \E k \in 1 .. Len(log[1]) :
       /\ pc[2] = "crawl"
       /\ log[1][k].ssn = Head(todo[2]).ssn /\ log[1][k].type = Head(todo[2]).type
       /\ IF log[1][k].crawl = "ok" THEN CrawlOk(2, log[1][k].items) ELSE CrawlFailed(2)
  \/ \E ok \in BOOLEAN : Notify(2, ok)
  \/ UpdateLoad(2)
  \/ UpdateSave(2)
  \/ Pause(2)

SpecTwice == InitTwice /\ [][NextTwice]_vars

\* Manual checks of the sellers of the store, those the add operation has
\* created included, against every outcome of the two crawls.
InitCheck ==
  /\ env = Kinds
  /\ site = OnePage
  /\ \E sellers \in InitialCollections : Start(sellers)

NextCheck ==
  \/ \E ssn \in Ssns, type \in Kinds : AddLoad(1, ssn, type)
  \/ AdminSave(1)
  \/ \E ssn \in Ssns, listingsOk, soldOk \in BOOLEAN, listings, sold \in ShortCrawlResults :
       AdminCheck(ssn, listingsOk, listings, soldOk, sold)

SpecCheck == InitCheck /\ [][NextCheck]_vars

\* sendWithRateLimit calls, one after the other, against every outcome of
\* every send.
InitNotify ==
  /\ env = Kinds
  /\ site = OnePage
  /\ variant = "utils"
  /\ Start(<<aL>>)

NextNotify ==
  \/ \E url \in Urls : Call(url)
  \/ LoopTop
  \/ \E r \in Outcomes : Send(r)

SpecNotify == InitNotify /\ [][NextNotify]_vars

\* The send loops of invocations that run at the same time, on one clock.
InitSenders ==
  /\ env = Kinds
  /\ site = OnePage
  /\ variant = "utils"
  /\ Start(<<aL>>)

NextSenders ==
  \/ \E p \in Senders, url \in Urls, n \in 1 .. MaxBatch : Enter(p, url, n)
  \/ \E p \in Senders : WakeUp(p)
  \/ \E p \in Senders, r \in SenderOutcomes : Response(p, r)
  \/ Tick

SpecSenders == InitSenders /\ [][NextSenders]_vars

\* One getSellerSoldItems call over every small site.
InitCrawl ==
  /\ env = Kinds
  /\ variant = "utils"
  /\ site \in Sites
  /\ Start(<<aL>>)

NextCrawl ==
  \/ AttemptFails
  \/ RetryDelay
  \/ FirstPage
  \/ PageStops
  \/ NoNextPage
  \/ ClickFailed
  \/ ClickLoaded

SpecCrawl == InitCrawl /\ [][NextCrawl]_vars

\* the same with every step that can be taken eventually taken
SpecCrawlFair == SpecCrawl /\ WF_vars(NextCrawl)

(* ------------------------------ properties ----------------------------- *)

\* an invocation between its start and its completion
Running(c) == pc[c] \notin {"idle", "done"}

\* the same tracked record: handle, kind and creation stamp
SameSeller(a, b) == a.ssn = b.ssn /\ a.type = b.type /\ a.addedAt = b.addedAt

\* the ids a list holds
IdSet(s) == Range(s)

\* C1: for a tracked seller and kind, no item id dispatched in one cycle is
\* dispatched again in another cycle.
C1_NoRepeatDispatch ==
  \A c1, c2 \in Cycles : c1 # c2 =>
    \A k1 \in 1 .. Len(log[c1]), k2 \in 1 .. Len(log[c2]) :
      SameSeller(log[c1][k1], log[c2][k2]) =>
        IdSet(log[c1][k1].sent) \cap IdSet(log[c2][k2].sent) = {}

\* C2: at every moment at most one monitorSellers invocation is between its
\* start and its completion.
C2_CyclesSerialized == Cardinality({c \in Cycles : Running(c)}) <= 1

\* C3: while a tracked record exists, no step takes an id out of its
\* persisted known-id list.
C3_KnownNeverShrinks ==
  [][\A i \in 1 .. Len(file.sellers), k \in 1 .. Len(file'.sellers) :
       SameSeller(file.sellers[i], file'.sellers[k]) =>
         IdSet(Known(file.sellers[i], file.sellers[i].type))
           \subseteq IdSet(Known(file'.sellers[k], file'.sellers[k].type))]_vars

\* C4: once a cycle has completed, the persisted known-id list of every
\* tracked seller holds every id a completed cycle dispatched for it.
C4_KnownCoversDispatched ==
  \A c \in Cycles : pc[c] = "done" =>
    \A k \in 1 .. Len(log[c]), i \in 1 .. Len(file.sellers) :
      SameSeller(log[c][k], file.sellers[i]) =>
        IdSet(log[c][k].sent) \subseteq IdSet(Known(file.sellers[i], file.sellers[i].type))

\* the stored record of the seller invocation c is working on, <<>> when the
\* file holds none
StoredCurrent(c, f) ==
  LET s == Head(todo[c])
      hits == {i \in 1 .. Len(f.sellers) : SameSeller(f.sellers[i], s)}
  IN IF hits = {} THEN <<>> ELSE f.sellers[CHOOSE i \in hits : TRUE]

\* C5: an id whose send returned false is not in the known-id list the cycle
\* has just saved for the seller.
C5_FailedSendNotRecorded ==
  \A c \in Cycles :
    (pc[c] = "pause" /\ log[c][Last(c)].upd = "saved" /\ StoredCurrent(c, file) # <<>>) =>
      failed[c] \cap IdSet(Known(StoredCurrent(c, file), Head(todo[c]).type)) = {}

\* C7: within one cycle, for one seller, no item id is dispatched twice.
C7_NoDuplicateInCycle ==
  \A c \in Cycles : \A k \in 1 .. Len(log[c]) :
    \A m, n \in 1 .. Len(log[c][k].sent) :
      m # n => log[c][k].sent[m] # log[c][k].sent[n]

\* C9: a failed store write for a seller leaves that seller's stored record as
\* it was, and the cycle goes on to the pause and the next seller.
C9_FailedWriteKeepsRecord ==
  [][\A c \in Cycles :
       (pc[c] = "save" /\ pc'[c] = "pause" /\ log'[c][Len(log'[c])].upd = "savefail") =>
         /\ StoredCurrent(c, file') = StoredCurrent(c, file)
         /\ todo'[c] = todo[c]]_vars

\* the elements of s outside K, picked by index in the order of s
Picked(s, K) ==
  LET idx == {i \in 1 .. Len(s) : s[i] \notin K}
      nth(n) == CHOOSE i \in idx : Cardinality({k \in idx : k < i}) = n - 1
  IN [n \in 1 .. Cardinality(idx) |-> s[nth(n)]]

\* the record of a log entry's seller in the collection the cycle loaded
Loaded(c, e) ==
  snap[c][CHOOSE i \in 1 .. Len(snap[c]) : SameSeller(snap[c][i], e)]

\* C6: the diff of a cycle yields the crawled items whose id is not known, in
\* crawl order; the id set it hands to the store is the known ids united with
\* the new ids; an empty crawl yields nothing new and writes nothing.
C6_DiffCorrect ==
  \A c \in Cycles :
    /\ \A k \in 1 .. Len(log[c]) :
         LET e == log[c][k]
             K == IdSet(Known(Loaded(c, e), e.type))
         IN e.crawl = "ok" =>
              /\ e.new = Picked(e.items, K)
              /\ \A n \in 1 .. Len(e.new) : e.new[n] \notin K
              /\ e.items = <<>> => (e.new = <<>> /\ e.upd = "none")
    /\ pc[c] = "save" =>
         LET s == Head(todo[c])
             w == StoredCurrent(c, [sellers |-> upd[c]])
         IN IdSet(Known(w, s.type)) = IdSet(Known(s, s.type)) \cup IdSet(newItems[c])

\* a diff over a crawl that mixes known and new ids, about to be saved
C6_Witness ==
  /\ pc[1] = "save"
  /\ Len(log[1][Last(1)].items) > Len(newItems[1])
  /\ Known(Head(todo[1]), Head(todo[1]).type) # <<>>
  /\ newItems[1] # <<>>

\* seller i of the loaded collection is iterated after the seller of entry e
After(c, i, e) ==
  LET s == snap[c][i]
      at == CHOOSE n \in 1 .. Len(snap[c]) : SameSeller(snap[c][n], e)
  IN \/ s.type = e.type /\ i > at
     \/ e.type = "listings" /\ s.type = "sold"

\* what the loop does for a seller it reaches: the crawl, and when it returns
\* items, a send for every new item and then the updateSeller call
Processed(e) ==
  \/ e.crawl = "fail"
  \/ /\ e.crawl = "ok"
     /\ e.sent = e.new
     /\ e.new # <<>> => e.upd # "none"
     /\ e.paused

\* C8: in a completed cycle, every seller iterated after one whose crawl
\* failed, of the same kind or of the other, was reached and processed.
C8_CrawlFailureIsolated ==
  \A c \in Cycles : pc[c] = "done" =>
    \A k \in 1 .. Len(log[c]) : log[c][k].crawl = "fail" =>
      \A i \in 1 .. Len(snap[c]) :
        (snap[c][i].type \in env /\ After(c, i, log[c][k])) =>
          \E m \in (k + 1) .. Len(log[c]) :
            SameSeller(log[c][m], snap[c][i]) /\ Processed(log[c][m])

\* the first seller's crawl failed; a seller of its kind and one of the other
\* kind were then crawled, notified and saved
C8_Witness ==
  /\ pc[1] = "done"
  /\ Len(log[1]) = 3
  /\ log[1][1].crawl = "fail"
  /\ log[1][2].type = log[1][1].type /\ log[1][2].upd = "saved"
  /\ log[1][3].type # log[1][1].type /\ log[1][3].upd = "saved"

\* C10: a sendWithRateLimit call makes at most 5 send attempts and has
\* returned once the fifth is made.
C10_AtMostFiveSends ==
  /\ sends <= 5
  /\ sends = 5 => sPc = "idle"

\* a call that returned false after five attempts, some answered 429 and some 5xx
C10_Witness ==
  /\ sPc = "idle"
  /\ sends = 5
  /\ {429, 500} \subseteq seen
  /\ ~sRes

\* C11: a sendWithRateLimit call ends in a return for every outcome of its
\* sends, and what it returns is true exactly when its last send succeeded.
C11_ReturnsOutcome ==
  /\ sPc \in {"idle", "top", "send"}
  /\ sRes \in BOOLEAN
  /\ (sPc = "idle" /\ calls > 0) => (sRes <=> resp.status = 200)
  /\ (sPc = "idle" /\ calls > 0) => (sRes <=> 200 \in seen)

\* a call that met a 429, a 5xx and an error without response, and returned false
C11_Witness ==
  /\ sPc = "idle"
  /\ calls = MaxCalls
  /\ ~sRes
  /\ seen = {429, 500, 0}

\* C13: a step of a call to one webhook changes the rate-limit entry of no
\* other webhook, and the wait before a send is the call's own webhook's
\* resetAt and nothing else.
C13_PerDestination ==
  [][/\ \A u \in Urls : rateLimitState'[u] # rateLimitState[u] => (u = sUrl /\ sPc = "send")
     /\ (sPc = "top" /\ sPc' = "send") =>
          now' = IF rateLimitState[sUrl] > now THEN rateLimitState[sUrl] ELSE now]_vars

\* a send to one webhook is under way while the other webhook is rate limited
C13_Witness ==
  /\ sPc = "send"
  /\ \E u \in Urls : u # sUrl /\ rateLimitState[u] > now

\* C14: the resetAt a 429 records is now plus v ms when the retry directive's
\* value v exceeds 1000, now plus v s when it does not, and now plus
\* min(30 s, 2^attempt s) when there is no directive.
C14_WaitDerivation ==
  [][(sends' = sends + 1 /\ resp'.status = 429) =>
       LET v == IF resp'.hdr # 0 THEN resp'.hdr ELSE resp'.data
           wait == IF v # 0 THEN (IF v > 1000 THEN v ELSE v * 1000)
                   ELSE Min(30000, Pow2(attempt) * 1000)
       IN rateLimitState'[sUrl] = now + wait]_vars

\* C15: after a send the call goes round the loop again exactly when the
\* outcome was a 429 or a 5xx and fewer than 5 sends have been made; any other
\* failure returns false; a 5xx retry sleeps min(10 s, 2^attempt s).
C15_RetryRule ==
  [][sends' = sends + 1 =>
       LET s == resp'.status
       IN /\ (sPc' = "top") <=> ((s = 429 \/ s >= 500) /\ sends' < 5)
          /\ (sPc' = "top") => attempt' = sends' /\ attempt' < 5
          /\ (s # 200 /\ sPc' # "top") => (sPc' = "idle" /\ ~sRes')
          /\ (s >= 500 /\ sPc' = "top") => now' = now + Min(10000, Pow2(sends) * 1000)]_vars

\* a call retried a 429 and a 5xx and then ended on a 404
C15_Witness ==
  /\ sPc = "idle"
  /\ ~sRes
  /\ sends = 3
  /\ seen = {429, 500, 404}
  /\ resp.status = 404

\* C16: when a send succeeds the call has returned true and the Map holds no
\* entry for its webhook.
C16_SuccessClears ==
  resp.status = 200 => (sPc = "idle" /\ sRes /\ rateLimitState[sUrl] = 0)

\* a success after a 429 of the same call had recorded a resetAt
C16_Witness ==
  /\ resp.status = 200
  /\ 429 \in seen

\* C19: once a cycle is complete, every seller whose crawl succeeded in it
\* carries the cycle's time in its persisted lastCheckedListings or
\* lastCheckedSold.
C19_LastCheckedStamped ==
  \A c \in Cycles : pc[c] = "done" =>
    \A k \in 1 .. Len(log[c]), i \in 1 .. Len(file.sellers) :
      (log[c][k].crawl = "ok" /\ SameSeller(file.sellers[i], log[c][k])) =>
        file.sellers[i][CheckedField(log[c][k].type)] = c

\* C20: a cycle reaches only sellers of a kind whose webhook url is set, and
\* reaches none when the collection is empty or no url is set.
C20_OnlyConfiguredKinds ==
  \A c \in Cycles :
    /\ \A k \in 1 .. Len(log[c]) : log[c][k].type \in env
    /\ \A i \in 1 .. Len(todo[c]) : todo[c][i].type \in env
    /\ (pc[c] \notin {"idle", "load"} /\ (snap[c] = <<>> \/ env = {})) =>
         (pc[c] = "done" /\ log[c] = <<>> /\ todo[c] = <<>>)

\* a complete cycle over sellers of both kinds with the sold url unset
C20_Witness ==
  /\ pc[1] = "done"
  /\ env = {"listings"}
  /\ Len(snap[1]) = 3
  /\ Len(log[1]) = 2
  /\ log[1][1].upd = "saved"

\* C12: a sendFunction() call for a webhook is never made while a resetAt
\* recorded for that webhook still lies ahead.
C12_NoSendBeforeReset ==
  [][\A p \in Senders :
       (sender[p].pc # "flight" /\ sender'[p].pc = "flight") =>
         rateLimitState[sender'[p].url] <= now]_vars

\* C17: no two sends to the same webhook are in flight at once.
C17_OneInFlight ==
  \A p, q \in Senders :
    (p # q /\ sender[p].pc = "flight" /\ sender[q].pc = "flight") =>
      sender[p].url # sender[q].url

\* C18: a call for a webhook starts no sooner than 2.5 s after the latest
\* call for the same webhook returned.
C18_Spacing ==
  [][\A p \in Senders :
       (sender[p].pc \in {"off", "spacing"} /\ sender'[p].pc \in {"wait", "flight"}) =>
         (lastEnd[sender'[p].url] = -1 \/ now - lastEnd[sender'[p].url] >= 2500)]_vars

\* C21: when a cycle reaches a seller, the seller before it was left through
\* the 5 s pause, whatever its crawl returned.
C21_PauseAfterEverySeller ==
  \A c \in Cycles : \A k \in 1 .. Len(log[c]) :
    k < Len(log[c]) => log[c][k].paused

\* C22: the pass over page k loads page k+1 only if the last item of page k is
\* in the window and a next page exists, and does load it then unless the
\* click fails.  An item is in the window unless its date parsed to a valid
\* timestamp more than 2 days back.
C22_NextPageRule ==
  [][kPc = "page" =>
       LET items == pageItems(pageNum)
           tail == items[Len(items)].soldDate
           tailInWindow == items # <<>> /\ ~(tail.match /\ tail.valid /\ tail.days > 2)
       IN /\ fetched' # fetched => (tailInWindow /\ pageNum < Len(site))
          /\ (tailInWindow /\ pageNum < Len(site) /\ nav' # "failed") =>
               fetched' = Append(fetched, pageNum + 1)]_vars

\* C23: once a page has been passed over, each of its items is in the result
\* unless its date parsed to a valid timestamp more than 2 days back, and no
\* item with such a date is.
C23_UnparsedKept ==
  \A k \in 1 .. Len(site) :
    (k < pageNum \/ (k = pageNum /\ kPc = "returned")) =>
      \A n \in 1 .. Len(pageItems(k)) :
        LET d == pageItems(k)[n].soldDate
        IN ~(d.match /\ d.valid /\ d.days > 2) <=> pageItems(k)[n] \in Range(soldItems)

\* C24: when the next button is missing or the click on it fails, the attempt
\* returns what it has collected, this page's items included, and
\* retryOperation makes no further attempt.
C24_StopsWithoutError ==
  [][(kPc = "page" /\ nav' \in {"absent", "failed"}) =>
       /\ kPc' = "returned"
       /\ kAttempt' = kAttempt /\ delays' = delays
       /\ \E more \in SeqUpTo(Range(pageItems(pageNum)), MaxCards) : soldItems' = soldItems \o more
       /\ \A n \in 1 .. Len(pageItems(pageNum)) :
            diffDaysAtMostTwo(pageItems(pageNum)[n].soldDate) =>
              pageItems(pageNum)[n] \in Range(soldItems')]_vars

\* the click on the next button of page 1 failed and page 1's item is returned
C24_Witness ==
  /\ kPc = "returned"
  /\ nav = "failed"
  /\ soldItems # <<>>

\* C25: retryOperation makes at most 3 attempts with a delay before every
\* attempt but the first; it stops at the first attempt that returns, and
\* throws, with no items, right after the third failure.
C25_ThreeAttempts ==
  /\ kAttempt \in 1 .. 3
  /\ delays = kAttempt - 1
  /\ kPc = "delay" => kAttempt < 3
  /\ kPc = "thrown" => (kAttempt = 3 /\ delays = 2 /\ soldItems = <<>>)

\* all three attempts failed
C25_Witness ==
  /\ kPc = "thrown"
  /\ delays = 2

\* C26: an attempt loads pages 1, 2, ... in order, each once and none beyond
\* the last, and the call ends.
C26_CrawlEnds ==
  /\ [](/\ fetched = [n \in 1 .. Len(fetched) |-> n]
        /\ Len(fetched) <= Len(site)
        /\ kPc = "page" => pageNum = Len(fetched))
  /\ <>(kPc \in {"returned", "thrown"})

\* a call that went through every page of a two-page site
C26_Witness ==
  /\ kPc = "returned"
  /\ Len(site) = 2
  /\ fetched = <<1, 2>>

(* ----------------------------- the triggers ---------------------------- *)

\* C27: each successful seller add or remove schedules exactly one more run
\* of the cycle and an unsuccessful one schedules none; the request starts or
\* cancels no cycle itself, so the periodic tick is as enabled after it as
\* before; each pending run starts exactly one cycle when its timer fires;
\* and at every moment the successful requests so far are as many as the
\* delayed runs pending or started, so n of them produce n delayed runs.
C27_OneRunPerChange ==
  [][LET Succeeded == {r \in Requests : req'[r].st = "done" /\ req'[r].res}
         Triggered == {c \in Cycles : pc'[c] # "idle" /\ origin'[c] = "trigger"}
     IN /\ \A r \in Requests :
             (req[r].st = "loaded" /\ req'[r].st = "done") =>
               /\ timers' = (IF req'[r].res THEN timers + 1 ELSE timers)
               /\ pc' = pc
               /\ origin' = origin
        /\ timers' < timers =>
             /\ timers' = timers - 1
             /\ \E c \in Cycles :
                  /\ pc[c] = "idle" /\ pc'[c] = "load" /\ origin'[c] = "trigger"
                  /\ \A k \in Cycles \ {c} : pc'[k] = pc[k] /\ origin'[k] = origin[k]
        /\ Cardinality(Succeeded) = timers' + Cardinality(Triggered)
    ]_vars

\* two changes succeeded within the delay window: two runs are pending
C27_Witness ==
  /\ timers = 2
  /\ \A r \in Requests : req[r].st = "done" /\ req[r].res

(* ------------------------ the scheduler goes on ------------------------ *)

\* C28: no failure inside a cycle stops the scheduler.  An invocation of
\* monitorSellers is always at one of its own positions (there is no state
\* in which it has rejected) and, while it runs, it always has a next step,
\* whatever crawl, notification or store failure has occurred so far, in it
\* or in another invocation; the periodic tick can start a new invocation
\* whenever one can be started, whatever the earlier ones did; and the first
\* invocation is started at process start, not by a tick.
C28_SchedulerGoesOn ==
  /\ \A c \in Cycles :
       /\ pc[c] \in {"idle", "load", "crawl", "notify", "update", "save", "pause", "done"}
       /\ Running(c) =>
            ENABLED (\/ MonitorLoad(c)
                     \/ \E items \in ShortCrawlResults : CrawlOk(c, items)
                     \/ CrawlFailed(c)
                     \/ \E ok \in BOOLEAN : Notify(c, ok)
                     \/ UpdateLoad(c)
                     \/ UpdateSave(c)
                     \/ Pause(c))
  /\ (\E c \in Cycles : pc[c] = "idle") => ENABLED IntervalTick
  /\ pc[1] # "idle" /\ origin[1] = "periodic"

\* the first invocation ended after a failed crawl, a write of the store has
\* failed, and the invocation a later periodic tick started has ended too
C28_Witness ==
  /\ pc[1] = "done" /\ Len(log[1]) = 1 /\ log[1][1].crawl = "fail"
  /\ fails > 0
  /\ pc[2] = "done" /\ origin[2] = "periodic" /\ Len(log[2]) = 1

(* ------------------------- one record per pair ------------------------- *)

\* C29: whatever the interleaving of adds, removes and the write-backs of the
\* cycles, the store never holds two records with the same (ssn, type), before
\* or after any step; and an add whose pair is in the store when the add
\* reads it ends at once as a failure, writes nothing and sets no timer.
C29_PairUnique ==
  [][LET Unique(sellers) ==
           \A a, b \in 1 .. Len(sellers) :
             (sellers[a].ssn = sellers[b].ssn /\ sellers[a].type = sellers[b].type)
               => a = b
         Present(ssn, type) ==
           \E i \in 1 .. Len(file.sellers) :
             file.sellers[i].ssn = ssn /\ file.sellers[i].type = type
     IN /\ Unique(file.sellers)
        /\ Unique(file'.sellers)
        /\ \A r \in Requests :
             (/\ req[r].st = "free" /\ req'[r].st # "free" /\ req'[r].op = "add"
              /\ Present(req'[r].ssn, req'[r].type)) =>
               /\ req'[r].st = "done" /\ ~req'[r].res
               /\ file' = file
               /\ timers' = timers
    ]_vars

\* seller b was added, a second add of b was turned down with no write having
\* failed, and a cycle has written a record back: the store holds a and b once
C29_Witness ==
  /\ req[1] = [NoRequest EXCEPT !.st = "done", !.op = "add", !.ssn = "b", !.res = TRUE]
  /\ req[2] = [NoRequest EXCEPT !.st = "done", !.op = "add", !.ssn = "b"]
  /\ fails = 0
  /\ \E c \in Cycles : Len(log[c]) > 0 /\ log[c][1].upd = "saved"
  /\ Len(file.sellers) = 2

(* ----------------------- the frame of a write-back --------------------- *)

\* C30: a write-back that succeeds changes only the record of the seller it
\* is for: every other record in the store just before the write is in the
\* store, with the same contents, just after it, and every other record in
\* the store after the write was there before it.
C30_OnlyOwnRecord ==
  [][\A c \in Cycles :
       (pc[c] = "save" /\ pc'[c] = "pause" /\ log'[c][Len(log'[c])].upd = "saved") =>
         LET s == Head(todo[c])
             Others(sellers) == {sellers[i] : i \in {k \in 1 .. Len(sellers) :
                                                      ~SameSeller(sellers[k], s)}}
         IN Others(file'.sellers) = Others(file.sellers)
    ]_vars

(* --------------------------- the store's writes ------------------------ *)

\* C31: a store write is atomic for readers and keeps the earlier collection
\* when it fails: after every step the file holds a whole collection, so no
\* load can find it cut short or empty, and a step in which a saveSellers
\* call fails leaves the file as it was.
C31_AtomicWrite ==
  [][/\ file'.st = "valid"
     /\ fails' > fails => file' = file]_vars

(* ------------------------------ a second run --------------------------- *)

\* C32: a cycle run again after the first has ended, with the same crawl
\* results and nothing else writing the store, sends no notification and
\* changes nothing in the store, so every known-id set stays as it was.
C32_SecondRunIdle ==
  [][/\ \A k \in 1 .. Len(log'[2]) : log'[2][k].sent = <<>>
     /\ pc[1] = "done" => file' = file]_vars

(* -------------------------- the order of the steps --------------------- *)

\* C33: for each seller of a cycle the steps come in the order crawl, diff,
\* every notification, one write-back.  The write-back of a seller is begun
\* only when a send has been made for each of its new items, none is begun
\* while sends remain, the store changes only in the write-back step, and
\* when the crawl of the next seller starts (or the cycle ends) the write-back
\* of every earlier seller with new items is over.
C33_StepOrder ==
  /\ [][file' # file => \E c \in Cycles : pc[c] = "save" /\ pc'[c] = "pause"]_vars
  /\ [](\A c \in Cycles :
          /\ \A k \in 1 .. Len(log[c]) :
               LET e == log[c][k]
               IN /\ e.upd # "none" => (e.crawl = "ok" /\ e.new # <<>> /\ e.sent = e.new)
                  /\ (k < Len(log[c]) \/ pc[c] \in {"crawl", "done"}) =>
                       /\ e.sent = e.new
                       /\ e.new # <<>> => e.upd # "none"
          /\ pc[c] \in {"update", "save"} =>
               /\ log[c][Len(log[c])].sent = newItems[c]
               /\ log[c][Len(log[c])].upd = "none"
          /\ pc[c] = "notify" => log[c][Len(log[c])].upd = "none")

\* the first seller had two new items, both were sent, its record was written
\* back, and the crawl of the second seller has been made
C33_Witness ==
  /\ Len(log[1]) = 2
  /\ Len(log[1][1].new) = 2
  /\ log[1][1].sent = log[1][1].new
  /\ log[1][1].upd = "saved"

(* ---------------------------- a failed crawl --------------------------- *)

\* C34: when the crawl of a seller fails in a cycle, that cycle sends no
\* notification for the seller and begins no write-back for it, and the step
\* in which the crawl fails leaves the store as it was, the seller's known
\* ids and last-checked time included.
C34_FailedCrawlNoEffect ==
  /\ [][\A c \in Cycles :
          (Len(log'[c]) > Len(log[c]) /\ log'[c][Len(log'[c])].crawl = "fail") =>
            /\ file' = file
            /\ pc'[c] \in {"crawl", "done"}]_vars
  /\ [](\A c \in Cycles : \A k \in 1 .. Len(log[c]) :
          log[c][k].crawl = "fail" =>
            /\ log[c][k].sent = <<>>
            /\ log[c][k].upd = "none"
            /\ log[c][k].new = <<>>)

\* the crawl of the first seller failed and the cycle went on: the second
\* seller had a new item, which was sent and stored
C34_Witness ==
  /\ pc[1] = "done"
  /\ Len(log[1]) >= 2
  /\ log[1][1].crawl = "fail"
  /\ log[1][2].sent # <<>> /\ log[1][2].upd = "saved"
  /\ \E i \in 1 .. Len(file.sellers) :
       /\ SameSeller(file.sellers[i], log[1][1])
       /\ Known(file.sellers[i], file.sellers[i].type) = <<>>
       /\ file.sellers[i][CheckedField(file.sellers[i].type)] = 0

(* --------------------------- after a remove ---------------------------- *)

\* C35: once a remove of a (seller, kind) has reported success and no add of
\* that pair has succeeded, no cycle sends a notification for that seller and
\* kind, a cycle that was already running when the remove happened included.
C35_NoSendAfterRemove ==
  [][\A c \in Cycles :
       (pc[c] = "notify" /\ j'[c] = j[c] + 1) =>
         LET e == log[c][Len(log[c])]
             Succeeded(op) == \E r \in Requests :
                                /\ req[r].st = "done" /\ req[r].res /\ req[r].op = op
                                /\ req[r].ssn = e.ssn /\ req[r].type = e.type
         IN ~(Succeeded("remove") /\ ~Succeeded("add"))
    ]_vars

(* ----------------------- adds and removes that last -------------------- *)

\* C36: an add that reported success is durable: while no write has failed
\* and no remove of the pair has succeeded, the store holds a record of the
\* added (ssn, type), whatever other adds, removes and write-backs of cycles
\* ran beside the add.
C36_AddDurable ==
  \A r \in Requests :
    (/\ req[r].st = "done" /\ req[r].res /\ req[r].op = "add"
     /\ fails = 0
     /\ ~\E q \in Requests : /\ req[q].st = "done" /\ req[q].res /\ req[q].op = "remove"
                             /\ req[q].ssn = req[r].ssn /\ req[q].type = req[r].type)
      => \E i \in 1 .. Len(file.sellers) :
           file.sellers[i].ssn = req[r].ssn /\ file.sellers[i].type = req[r].type

\* C37: a removed seller is not put back: while no add of the pair has
\* succeeded, the store holds no record of a (ssn, type) whose remove has
\* reported success, whatever cycles and other admin operations write later.
C37_NoResurrection ==
  \A r \in Requests :
    (/\ req[r].st = "done" /\ req[r].res /\ req[r].op = "remove"
     /\ ~\E q \in Requests : /\ req[q].st = "done" /\ req[q].res /\ req[q].op = "add"
                             /\ req[q].ssn = req[r].ssn /\ req[q].type = req[r].type)
      => ~\E i \in 1 .. Len(file.sellers) :
            file.sellers[i].ssn = req[r].ssn /\ file.sellers[i].type = req[r].type

(* ------------------------ a write that fails --------------------------- *)

C39_UnreadableNotReplaced ==
  [][file.st = "corrupt" =>
       /\ \A r \in Requests :
            (req[r].st = "free" /\ req'[r].st # "free") =>
              (req'[r].st = "done" /\ ~req'[r].res)
       /\ \A c \in Cycles :
            (pc[c] = "update" /\ pc'[c] # "update") =>
              (pc'[c] = "pause" /\ log'[c][Len(log'[c])].upd # "none")
    ]_vars

(* ------------------------------ check-now ------------------------------ *)

\* C40: a manual check of a tracked seller, of either kind, whose two crawls
\* succeed is answered with the counts (status 200, the totals being the
\* numbers of items crawled and no new count above its total), never with an
\* error.
C40_CheckReportsCounts ==
  (checked.found /\ checked.listingsOk /\ checked.soldOk) =>
    /\ checked.status = 200
    /\ checked.listings.new <= checked.listings.total
    /\ checked.soldItems.new <= checked.soldItems.total

====
